---------------------------- MODULE Spec2Model ----------------------------
(***************************************************************************)
(* Model of the time-series splitting utilities, the list-merge utility   *)
(* and the legacy format reader of toolkit/util.py.                        *)
(*                                                                         *)
(* A table is a sequence of rows; a row carries its original ordinal       *)
(* position (the pandas index label), its id column and its timestamp.     *)
(* Optional arguments are modelled as sequences: <<>> is Python's None and *)
(* <<v>> is the value v.  A float fraction is the pair <<num, den>>        *)
(* standing for num/den; the fractions drawn here are dyadic, so the       *)
(* float product length * fraction is exact and int() of it is the         *)
(* truncated rational quotient.                                            *)
(***************************************************************************)
EXTENDS Integers, Sequences, FiniteSets, TLC

VARIABLES df, call, ret, tsf

vars == <<df, call, ret, tsf>>

---------------------------------------------------------------------------
(* Bounds of the model *)

MaxLen == 3
MaxOffset == 2
MaxContext == 2

Ids == {1, 2}
Timestamps == {-1, 0, 1}
TimestampBounds == {-1, 0, 1, 2}
Fractions == {<<0, 1>>, <<1, 4>>, <<1, 2>>, <<3, 4>>, <<1, 1>>}
BadFractions == {<<-1, 4>>, <<5, 4>>}
Locations == {"first", "last", "middle"}
Boundaries == {<<0, 1>>, <<7, 10>>, <<9, 10>>, <<1, 1>>, <<3, 2>>, <<3, 1>>}

---------------------------------------------------------------------------
(* Python values *)

None == <<>>
Some(v) == <<v>>
Val(x) == x[1]

\* `if x:` for an Optional[int]: None and 0 are both falsy
Truthy(x) == x /= None /\ x[1] /= 0

\* `if x:` for an Optional[float]: None and 0.0 are both falsy
TruthyF(x) == x /= None /\ x[1][1] /= 0

\* int(n / d) for d > 0: Python's int() truncates toward zero
IntTrunc(n, d) == IF n >= 0 THEN n \div d ELSE -((-n) \div d)

Ok(rows) == [status |-> "ok", rows |-> rows]
Raise(kind) == [status |-> kind, rows |-> <<>>]

\* normalisation of one slice bound against a length n
SliceBound(i, n) ==
    IF i < 0 THEN (IF i + n < 0 THEN 0 ELSE i + n)
    ELSE (IF i > n THEN n ELSE i)

\* a label-style slice whose stop bound is inclusive
iloc_inclusive(group_df, start, stop) ==
    LET n == Len(group_df)
        s == IF start = None THEN 0 ELSE SliceBound(Val(start), n)
        e == IF stop = None THEN n ELSE SliceBound(Val(stop) + 1, n)
    IN IF s < e THEN SubSeq(group_df, s + 1, e) ELSE <<>>

\* group_df.iloc[start:stop], either bound possibly None, 0-based, stop exclusive
iloc(group_df, start, stop) ==
    LET n == Len(group_df)
        s == IF start = None THEN 0 ELSE SliceBound(Val(start), n)
        e == IF stop = None THEN n ELSE SliceBound(Val(stop), n)
    IN IF s < e THEN SubSeq(group_df, s + 1, e) ELSE <<>>

---------------------------------------------------------------------------
(* Tables and grouping *)

Rows(n) == [1..n -> [id : Ids, timestamp : Timestamps]]

MakeTable(f) ==
    [i \in 1..Len(f) |-> [index |-> i - 1, id |-> f[i].id, timestamp |-> f[i].timestamp]]

Tables == UNION {{MakeTable(f) : f \in Rows(n)} : n \in 0..MaxLen}

GroupOf(table, key) == SelectSeq(table, LAMBDA r : r.id = key)

RECURSIVE SortedKeys(_)
SortedKeys(S) ==
    IF S = {} THEN <<>>
    ELSE LET m == CHOOSE x \in S : \A y \in S : x <= y
         IN <<m>> \o SortedKeys(S \ {m})

\* df.groupby(key): the groups in ascending key order, rows in table order
groupby(table) ==
    LET keys == SortedKeys({table[i].id : i \in 1..Len(table)})
    IN [i \in 1..Len(keys) |-> GroupOf(table, keys[i])]

RECURSIVE Flatten(_)
Flatten(parts) ==
    IF parts = <<>> THEN <<>> ELSE Head(parts) \o Flatten(Tail(parts))

\* a loop over the groups that skips every group that raises
concat_skip_failed(results) ==
    LET good == SelectSeq(results, LAMBDA r : r.status = "ok")
    IN IF good = <<>> THEN Raise("no_objects")
       ELSE Ok(Flatten([i \in 1..Len(good) |-> good[i].rows]))

\* the loop over the groups followed by pd.concat(result): the first group
\* that raises aborts the call; concatenating an empty list raises
concat(results) ==
    LET bad == {i \in 1..Len(results) : results[i].status /= "ok"}
    IN IF bad /= {}
       THEN results[CHOOSE i \in bad : \A j \in bad : i <= j]
       ELSE IF results = <<>> THEN Raise("no_objects")
       ELSE Ok(Flatten([i \in 1..Len(results) |-> results[i].rows]))

---------------------------------------------------------------------------
(* Selection primitives *)

select_by_timestamp(table, start_timestamp, end_timestamp) ==
    IF ~Truthy(start_timestamp) /\ ~Truthy(end_timestamp) THEN Raise("config")
    ELSE IF ~Truthy(start_timestamp)
    THEN Ok(SelectSeq(table, LAMBDA r : r.timestamp < Val(end_timestamp)))
    ELSE IF ~Truthy(end_timestamp)
    THEN Ok(SelectSeq(table, LAMBDA r : r.timestamp >= Val(start_timestamp)))
    ELSE Ok(SelectSeq(table, LAMBDA r : r.timestamp >= Val(start_timestamp)
                                        /\ r.timestamp < Val(end_timestamp)))

\* the range check with > in place of >=
_split_group_by_index_gt(group_df, start_index, end_index) ==
    IF Truthy(start_index) /\ Val(start_index) > Len(group_df)
    THEN Raise("out_of_range")
    ELSE IF ~Truthy(start_index) THEN Ok(iloc(group_df, None, end_index))
    ELSE IF ~Truthy(end_index) THEN Ok(iloc(group_df, start_index, None))
    ELSE Ok(iloc(group_df, start_index, end_index))

_split_group_by_index(group_df, start_index, end_index) ==
    IF Truthy(start_index) /\ Val(start_index) >= Len(group_df)
    THEN Raise("out_of_range")
    ELSE IF ~Truthy(start_index) THEN Ok(iloc(group_df, None, end_index))
    ELSE IF ~Truthy(end_index) THEN Ok(iloc(group_df, start_index, None))
    ELSE Ok(iloc(group_df, start_index, end_index))

select_by_index(table, id_columns, start_index, end_index) ==
    IF ~Truthy(start_index) /\ ~Truthy(end_index) THEN Raise("config")
    ELSE IF id_columns = <<>>
    THEN _split_group_by_index(table, start_index, end_index)
    ELSE LET groups == groupby(table)
         IN concat([i \in 1..Len(groups) |->
                       _split_group_by_index(groups[i], start_index, end_index)])


\* the helper without the check for a negative start index
_split_group_by_fraction_unchecked(group_df, start_fraction, start_offset, end_fraction) ==
    LET length == Len(group_df)
        start_index == IF start_fraction /= None
                       THEN Some(IntTrunc(length * Val(start_fraction)[1], Val(start_fraction)[2])
                                 - start_offset)
                       ELSE None
        end_index == IF end_fraction /= None
                     THEN Some(IntTrunc(length * Val(end_fraction)[1], Val(end_fraction)[2]))
                     ELSE None
    IN _split_group_by_index(group_df, start_index, end_index)

_split_group_by_fraction(group_df, start_fraction, start_offset, end_fraction) ==
    LET length == Len(group_df)
        start_index == IF start_fraction /= None
                       THEN Some(IntTrunc(length * Val(start_fraction)[1], Val(start_fraction)[2])
                                 - start_offset)
                       ELSE None
        end_index == IF end_fraction /= None
                     THEN Some(IntTrunc(length * Val(end_fraction)[1], Val(end_fraction)[2]))
                     ELSE None
    IN IF start_fraction /= None /\ Val(start_index) < 0
       THEN Raise("negative_start")
       ELSE _split_group_by_index(group_df, start_index, end_index)

select_by_relative_fraction(table, id_columns, start_fraction, start_offset, end_fraction) ==
    IF ~TruthyF(start_fraction) /\ ~TruthyF(end_fraction) THEN Raise("config")
    ELSE IF start_offset < 0 THEN Raise("validation")
    ELSE IF id_columns = <<>>
    THEN _split_group_by_fraction(table, start_fraction, start_offset, end_fraction)
    ELSE LET groups == groupby(table)
         IN concat([i \in 1..Len(groups) |->
                       _split_group_by_fraction(groups[i], start_fraction, start_offset,
                                                end_fraction)])

\* the size taken as a fraction of the whole length, not of length - minimum_size
_split_group_by_fixed_fraction_whole(group_df, fraction, location, minimum_size) ==
    LET l == Len(group_df)
        fraction_size == IntTrunc(fraction[1] * l, fraction[2]) + minimum_size
    IN IF location = "first"
       THEN _split_group_by_index(group_df, Some(0), Some(fraction_size))
       ELSE IF location = "last"
       THEN _split_group_by_index(group_df, Some(l - fraction_size), Some(l))
       ELSE Raise("location")

_split_group_by_fixed_fraction(group_df, fraction, location, minimum_size) ==
    LET l == Len(group_df)
        fraction_size == IntTrunc(fraction[1] * (l - minimum_size), fraction[2]) + minimum_size
    IN IF location = "first"
       THEN _split_group_by_index(group_df, Some(0), Some(fraction_size))
       ELSE IF location = "last"
       THEN _split_group_by_index(group_df, Some(l - fraction_size), Some(l))
       ELSE Raise("location")

select_by_fixed_fraction(table, id_columns, fraction, location, minimum_size) ==
    IF fraction[1] < 0 \/ fraction[1] > fraction[2] THEN Raise("fraction_range")
    ELSE IF id_columns = <<>>
    THEN _split_group_by_fixed_fraction(table, fraction, location, minimum_size)
    ELSE LET groups == groupby(table)
         IN concat([i \in 1..Len(groups) |->
                       _split_group_by_fixed_fraction(groups[i], fraction, location,
                                                      minimum_size)])

\* the result of a three-way split: one status and the three tables
Ok3(train_rows, valid_rows, test_rows) ==
    [status |-> "ok", train |-> train_rows, valid |-> valid_rows, test |-> test_rows]
Raise3(kind) == [status |-> kind, train |-> <<>>, valid |-> <<>>, test |-> <<>>]

\* the train size rounded up instead of truncated
_split_group_train_test_ceil(group_df, train, test, valid_test_offset) ==
    LET l == Len(group_df)
        train_size == IntTrunc(l * train[1] + train[2] - 1, train[2])
        test_size == IntTrunc(l * test[1], test[2])
        valid_size == l - train_size - test_size
        train_df == _split_group_by_index(group_df, Some(0), Some(train_size))
        valid_df == _split_group_by_index(group_df, Some(train_size - valid_test_offset),
                                          Some(train_size + valid_size))
        test_df == _split_group_by_index(group_df,
                                         Some(train_size + valid_size - valid_test_offset), None)
    IN IF train_df.status /= "ok" THEN Raise3(train_df.status)
       ELSE IF valid_df.status /= "ok" THEN Raise3(valid_df.status)
       ELSE IF test_df.status /= "ok" THEN Raise3(test_df.status)
       ELSE Ok3(train_df.rows, valid_df.rows, test_df.rows)

_split_group_train_test(group_df, train, test, valid_test_offset) ==
    LET l == Len(group_df)
        train_size == IntTrunc(l * train[1], train[2])
        test_size == IntTrunc(l * test[1], test[2])
        valid_size == l - train_size - test_size
        train_df == _split_group_by_index(group_df, Some(0), Some(train_size))
        valid_df == _split_group_by_index(group_df, Some(train_size - valid_test_offset),
                                          Some(train_size + valid_size))
        test_df == _split_group_by_index(group_df,
                                         Some(train_size + valid_size - valid_test_offset), None)
    IN IF train_df.status /= "ok" THEN Raise3(train_df.status)
       ELSE IF valid_df.status /= "ok" THEN Raise3(valid_df.status)
       ELSE IF test_df.status /= "ok" THEN Raise3(test_df.status)
       ELSE Ok3(train_df.rows, valid_df.rows, test_df.rows)

\* zip(*result) over the per-group triples followed by the three pd.concat
\* calls; unpacking the zip of an empty list raises
concat3(results) ==
    LET bad == {i \in 1..Len(results) : results[i].status /= "ok"}
    IN IF bad /= {}
       THEN results[CHOOSE i \in bad : \A j \in bad : i <= j]
       ELSE IF results = <<>> THEN Raise3("no_objects")
       ELSE Ok3(Flatten([i \in 1..Len(results) |-> results[i].train]),
                Flatten([i \in 1..Len(results) |-> results[i].valid]),
                Flatten([i \in 1..Len(results) |-> results[i].test]))

train_test_split(table, id_columns, train, test, valid_test_offset) ==
    IF id_columns = <<>>
    THEN _split_group_train_test(table, train, test, valid_test_offset)
    ELSE LET groups == groupby(table)
         IN concat3([i \in 1..Len(groups) |->
                        _split_group_train_test(groups[i], train, test, valid_test_offset)])

---------------------------------------------------------------------------
(* The calls *)

NoCall == [fn |-> "none"]

\* no file is being read
NoParse == [status |-> "none"]

IdColumns == {<<>>, <<"id">>}
OptIndex(lo, hi) == {None} \cup {Some(i) : i \in lo..hi}

Init ==
    /\ df \in Tables
    /\ call = NoCall
    /\ ret = NoCall
    /\ tsf = NoParse

CallSelectByTimestamp ==
    /\ call = NoCall
    /\ \E s \in {None} \cup {Some(t) : t \in TimestampBounds},
          e \in {None} \cup {Some(t) : t \in TimestampBounds} :
          /\ call' = [fn |-> "select_by_timestamp", start_timestamp |-> s, end_timestamp |-> e]
          /\ ret' = select_by_timestamp(df, s, e)
    /\ UNCHANGED <<df, tsf>>

CallSelectByIndex ==
    /\ call = NoCall
    /\ \E ids \in IdColumns, s \in OptIndex(-1, MaxLen + 1), e \in OptIndex(0, MaxLen + 1) :
          /\ call' = [fn |-> "select_by_index", id_columns |-> ids,
                      start_index |-> s, end_index |-> e]
          /\ ret' = select_by_index(df, ids, s, e)
    /\ UNCHANGED <<df, tsf>>

CallSelectByRelativeFraction ==
    /\ call = NoCall
    /\ \E ids \in IdColumns, sf \in {None} \cup {Some(f) : f \in Fractions},
          ef \in {None} \cup {Some(f) : f \in Fractions}, off \in -1..MaxOffset :
          /\ call' = [fn |-> "select_by_relative_fraction", id_columns |-> ids,
                      start_fraction |-> sf, start_offset |-> off, end_fraction |-> ef]
          /\ ret' = select_by_relative_fraction(df, ids, sf, off, ef)
    /\ UNCHANGED <<df, tsf>>

CallSelectByFixedFraction ==
    /\ call = NoCall
    /\ \E ids \in IdColumns, f \in Fractions \cup BadFractions, loc \in Locations,
          ms \in 0..MaxLen :
          /\ call' = [fn |-> "select_by_fixed_fraction", id_columns |-> ids,
                      fraction |-> f, location |-> loc, minimum_size |-> ms]
          /\ ret' = select_by_fixed_fraction(df, ids, f, loc, ms)
    /\ UNCHANGED <<df, tsf>>

CallTrainTestSplit ==
    /\ call = NoCall
    /\ \E ids \in IdColumns, tr \in Fractions, te \in Fractions, off \in 0..MaxOffset :
          /\ call' = [fn |-> "train_test_split", id_columns |-> ids,
                      train |-> tr, test |-> te, valid_test_offset |-> off]
          /\ ret' = train_test_split(df, ids, tr, te, off)
    /\ UNCHANGED <<df, tsf>>

Next ==
    \/ CallSelectByTimestamp
    \/ CallSelectByIndex
    \/ CallSelectByRelativeFraction
    \/ CallSelectByFixedFraction
    \/ CallTrainTestSplit

Spec == Init /\ [][Next]_vars

---------------------------------------------------------------------------
(* The split-policy resolver *)

\* a boundary test that forgets the zero special case
uses_fraction_no_zero_case(bounds) ==
    (bounds[1][1] < bounds[1][2]) \/ (bounds[2][1] < bounds[2][2])

\* ((b0 < 1) and (b0 != 0)) or (b1 < 1), for boundaries num/den with den > 0
uses_fraction(bounds) ==
    ((bounds[1][1] < bounds[1][2]) /\ (bounds[1][1] /= 0)) \/ (bounds[2][1] < bounds[2][2])

\* the context length applied to every split, train included
context_offset_all(context_length, group) ==
    IF Truthy(context_length) THEN Val(context_length) ELSE 0

\* context_length if (context_length and group != "train") else 0
context_offset(context_length, group) ==
    IF Truthy(context_length) /\ group /= "train" THEN Val(context_length) ELSE 0

SplitKeys == {"train", "test", "valid"}

get_split_params(split_config, context_length) ==
    IF "valid" \in DOMAIN split_config
    THEN [split_params |->
             [group \in SplitKeys |->
                 IF uses_fraction(split_config[group])
                 THEN [start_fraction |-> split_config[group][1],
                       end_fraction |-> split_config[group][2],
                       start_offset |-> context_offset(context_length, group)]
                 ELSE [start_index |->
                          <<split_config[group][1][1]
                              - context_offset(context_length, group) * split_config[group][1][2],
                            split_config[group][1][2]>>,
                       end_index |-> split_config[group][2]]],
          split_function |->
             [group \in SplitKeys |->
                 IF uses_fraction(split_config[group])
                 THEN "select_by_relative_fraction"
                 ELSE "select_by_index"]]
    ELSE [split_params |-> [train |-> split_config["train"],
                            test |-> split_config["test"],
                            valid_test_offset |->
                                IF Truthy(context_length) THEN Val(context_length) ELSE 0],
          split_function |-> "train_test_split"]

ThreeWayConfigs == [SplitKeys -> Boundaries \X Boundaries]
TwoWayConfigs == [{"train", "test"} -> Fractions]

InitParams ==
    /\ df = <<>>
    /\ call = NoCall
    /\ ret = NoCall
    /\ tsf = NoParse

CallGetSplitParams ==
    /\ call = NoCall
    /\ \E cfg \in ThreeWayConfigs \cup TwoWayConfigs, cl \in OptIndex(0, MaxContext) :
          /\ call' = [fn |-> "get_split_params", split_config |-> cfg, context_length |-> cl]
          /\ ret' = get_split_params(cfg, cl)
    /\ UNCHANGED <<df, tsf>>

NextParams == CallGetSplitParams

SpecParams == InitParams /\ [][NextParams]_vars

---------------------------------------------------------------------------
(* Properties of the selection primitives *)

\* the groups a call works on: the whole table without id columns, else
\* one group per distinct id, in ascending id order
GroupsOf(table, id_columns) ==
    IF id_columns = <<>> THEN <<table>> ELSE groupby(table)

\* the rows of a group at the ordinal positions lo <= p < hi
RowsAt(group, lo, hi) ==
    LET P == {p \in 0..(Len(group) - 1) : lo <= p /\ p < hi}
    IN [i \in 1..Cardinality(P) |-> group[i + (CHOOSE m \in P : \A q \in P : m <= q)]]

Min(a, b) == IF a < b THEN a ELSE b

\* C1 as stated, on its cases k >= 1 (k = 0 is a case of C2): for every k
\* in 1..len(T), select_by_index(T, 0, k) and select_by_index(T, k, None)
\* both succeed and their concatenation is T.
C1_Original ==
    (/\ call.fn = "select_by_index"
     /\ call.id_columns = <<>>
     /\ call.start_index = Some(0)
     /\ call.end_index /= None
     /\ Val(call.end_index) \in 1..Len(df))
    => LET second == select_by_index(df, <<>>, call.end_index, None)
       IN /\ ret.status = "ok"
          /\ second.status = "ok"
          /\ ret.rows \o second.rows = df

\* C1 amended: for every k with 0 < k < len(T), select_by_index(T, 0, k) and
\* select_by_index(T, k, None) both succeed and their concatenation is T,
\* row for row in the original order; at k = len(T) > 0 the first call
\* returns T and the second raises the out-of-range error.
C1_Reconstruct ==
    (/\ call.fn = "select_by_index"
     /\ call.id_columns = <<>>
     /\ call.start_index = Some(0)
     /\ call.end_index /= None
     /\ Val(call.end_index) \in 1..Len(df))
    => LET second == select_by_index(df, <<>>, call.end_index, None)
       IN IF Val(call.end_index) < Len(df)
          THEN /\ ret.status = "ok"
               /\ second.status = "ok"
               /\ ret.rows \o second.rows = df
          ELSE /\ ret = Ok(df)
               /\ second = Raise("out_of_range")

C1_Witness ==
    /\ call.fn = "select_by_index"
    /\ call.id_columns = <<>>
    /\ call.start_index = Some(0)
    /\ call.end_index = Some(2)
    /\ Len(df) = 3
    /\ ret = Ok(SubSeq(df, 1, 2))
    /\ select_by_index(df, <<>>, Some(2), None) = Ok(SubSeq(df, 3, 3))

\* C2 as stated: with 0 <= start_index < L or start_index omitted, and
\* end_index >= 0 or omitted, not both omitted, select_by_index returns in
\* every group exactly the rows at positions start_index <= p < end_index
\* (from 0 when start_index is omitted, to the end of the group when
\* end_index is omitted, clipped to L); an explicit end_index of 0 gives no rows.
C2_Claim ==
    (/\ call.fn = "select_by_index"
     /\ ~(call.start_index = None /\ call.end_index = None)
     /\ (call.id_columns /= <<>> => df /= <<>>)
     /\ \A i \in DOMAIN GroupsOf(df, call.id_columns) :
           \/ call.start_index = None
           \/ (0 <= Val(call.start_index)
               /\ Val(call.start_index) < Len(GroupsOf(df, call.id_columns)[i])))
    => LET groups == GroupsOf(df, call.id_columns)
           lo == IF call.start_index = None THEN 0 ELSE Val(call.start_index)
           hi(g) == IF call.end_index = None THEN Len(g) ELSE Min(Val(call.end_index), Len(g))
       IN ret = Ok(Flatten([i \in DOMAIN groups |-> RowsAt(groups[i], lo, hi(groups[i]))]))

\* C3: select_by_index raises the out-of-range error exactly when
\* start_index is truthy and start_index >= the length of the table
\* (ungrouped) or of some group (grouped); a call that fails returns no rows
\* of any group.
C3_OutOfRangeIff ==
    call.fn = "select_by_index"
    => /\ ret.status = "out_of_range"
          <=> /\ call.start_index /= None
              /\ Val(call.start_index) /= 0
              /\ IF call.id_columns = <<>>
                 THEN Val(call.start_index) >= Len(df)
                 ELSE \E k \in Ids :
                         /\ \E i \in DOMAIN df : df[i].id = k
                         /\ Val(call.start_index)
                              >= Cardinality({i \in DOMAIN df : df[i].id = k})
       /\ ret.status /= "ok" => ret.rows = <<>>

C3_Witness ==
    /\ call.fn = "select_by_index"
    /\ call.id_columns = <<"id">>
    /\ call.start_index = Some(1)
    /\ call.end_index = None
    /\ Cardinality({i \in DOMAIN df : df[i].id = 1}) = 2
    /\ Cardinality({i \in DOMAIN df : df[i].id = 2}) = 1
    /\ ret = Raise("out_of_range")

---------------------------------------------------------------------------
(* Properties of train_test_split *)

\* the part of an output table that comes from the group g
Piece(rows, id_columns, g) ==
    IF id_columns = <<>> THEN rows ELSE SelectSeq(rows, LAMBDA r : r.id = g[1].id)

\* floor(L * f) for a fraction f = <<num, den>> in [0, 1]
FloorOf(L, f) == (L * f[1]) \div f[2]

\* train + test <= 1
SumAtMostOne(train, test) == train[1] * test[2] + test[1] * train[2] <= train[2] * test[2]

\* the three outputs restricted to g have the sizes floor(L*train),
\* L - floor(L*train) - floor(L*test), floor(L*test) and concatenate to g
Partitions(g) ==
    LET L == Len(g)
        tr == Piece(ret.train, call.id_columns, g)
        va == Piece(ret.valid, call.id_columns, g)
        te == Piece(ret.test, call.id_columns, g)
    IN /\ Len(tr) = FloorOf(L, call.train)
       /\ Len(va) = L - FloorOf(L, call.train) - FloorOf(L, call.test)
       /\ Len(te) = FloorOf(L, call.test)
       /\ tr \o va \o te = g
       /\ \A i \in DOMAIN tr, j \in DOMAIN va : tr[i].index < va[j].index
       /\ \A i \in DOMAIN va, j \in DOMAIN te : va[i].index < te[j].index

C4_Case ==
    /\ call.fn = "train_test_split"
    /\ call.valid_test_offset = 0
    /\ SumAtMostOne(call.train, call.test)
    /\ (call.id_columns /= <<>> => df /= <<>>)

\* C4 as stated: with valid_test_offset = 0 and train + test <= 1 the call
\* succeeds and in every group the outputs have the sizes floor(L*train),
\* L - floor(L*train) - floor(L*test), floor(L*test) and partition the group.
C4_Original ==
    C4_Case
    => /\ ret.status = "ok"
       /\ \A i \in DOMAIN GroupsOf(df, call.id_columns) :
             Partitions(GroupsOf(df, call.id_columns)[i])

\* C4 amended: with valid_test_offset = 0 and train + test <= 1 the call
\* succeeds, with those sizes and that partition in every group, when every
\* group is empty or has floor(L*test) >= 1; when some group of length
\* L >= 1 has floor(L*test) = 0 the call raises the out-of-range error.
C4_Partition ==
    C4_Case
    => LET groups == GroupsOf(df, call.id_columns)
           emptyTest == {i \in DOMAIN groups :
                            Len(groups[i]) >= 1 /\ FloorOf(Len(groups[i]), call.test) = 0}
       IN IF emptyTest = {}
          THEN /\ ret.status = "ok"
               /\ \A i \in DOMAIN groups : Partitions(groups[i])
          ELSE ret.status = "out_of_range"

C4_Witness ==
    /\ C4_Case
    /\ call.id_columns = <<>>
    /\ Len(df) = 3
    /\ call.train = <<1, 2>>
    /\ call.test = <<1, 2>>
    /\ ret = Ok3(SubSeq(df, 1, 1), SubSeq(df, 2, 2), SubSeq(df, 3, 3))

\* C5 as stated: for every valid_test_offset o >= 0 the call returns, in
\* every group, train = the rows at [0, train_size), valid = the rows at
\* positions train_size - o <= p < train_size + valid_size and test = the
\* rows at positions train_size + valid_size - o <= p < L.
C5_Claim ==
    (/\ call.fn = "train_test_split"
     /\ call.valid_test_offset >= 0
     /\ SumAtMostOne(call.train, call.test)
     /\ ret.status = "ok")
    => \A i \in DOMAIN GroupsOf(df, call.id_columns) :
          LET g == GroupsOf(df, call.id_columns)[i]
              L == Len(g)
              o == call.valid_test_offset
              train_size == FloorOf(L, call.train)
              valid_size == L - train_size - FloorOf(L, call.test)
          IN /\ Piece(ret.train, call.id_columns, g) = RowsAt(g, 0, train_size)
             /\ Piece(ret.valid, call.id_columns, g)
                  = RowsAt(g, train_size - o, train_size + valid_size)
             /\ Piece(ret.test, call.id_columns, g)
                  = RowsAt(g, train_size + valid_size - o, L)

---------------------------------------------------------------------------
(* Properties of get_split_params *)

ThreeWay == call.fn = "get_split_params" /\ "valid" \in DOMAIN call.split_config

IsZero(x) == x[1] = 0
StrictlyBetween0And1(x) == 0 < x[1] /\ x[1] < x[2]

FractionMode(group) ==
    /\ ret.split_function[group] = "select_by_relative_fraction"
    /\ DOMAIN ret.split_params[group] = {"start_fraction", "end_fraction", "start_offset"}

IndexMode(group) ==
    /\ ret.split_function[group] = "select_by_index"
    /\ DOMAIN ret.split_params[group] = {"start_index", "end_index"}

ExampleConfig ==
    [group \in SplitKeys |->
        IF group = "train" THEN <<(<<0, 1>>), (<<7, 10>>)>>
        ELSE IF group = "valid" THEN <<(<<7, 10>>), (<<9, 10>>)>>
        ELSE <<(<<9, 10>>), (<<1, 1>>)>>]

\* C6 as stated: in three-way mode a split resolves to fraction mode
\* whenever either boundary is a non-integral fraction or the first
\* boundary equals 0 exactly, and to index mode otherwise.
C6_Original ==
    ThreeWay
    => \A group \in SplitKeys :
          LET b == call.split_config[group]
          IN IF StrictlyBetween0And1(b[1]) \/ StrictlyBetween0And1(b[2]) \/ IsZero(b[1])
             THEN FractionMode(group)
             ELSE IndexMode(group)

\* C6 amended: in three-way mode, for non-negative boundaries, a split
\* resolves to fraction mode whenever either boundary lies strictly between
\* 0 and 1 or the second boundary equals 0, and to index mode otherwise; a
\* first boundary of 0 does not by itself select fraction mode.  The
\* configuration train [0, 0.7], valid [0.7, 0.9], test [0.9, 1.0] resolves
\* to fraction mode for all three splits.
C6_ModeChoice ==
    ThreeWay
    => /\ \A group \in SplitKeys :
             LET b == call.split_config[group]
             IN IF StrictlyBetween0And1(b[1]) \/ StrictlyBetween0And1(b[2]) \/ IsZero(b[2])
                THEN FractionMode(group)
                ELSE IndexMode(group)
       /\ call.split_config = ExampleConfig => \A group \in SplitKeys : FractionMode(group)

C6_Witness ==
    /\ ThreeWay
    /\ call.split_config["train"] = <<(<<0, 1>>), (<<3, 1>>)>>
    /\ call.split_config["valid"] = <<(<<7, 10>>), (<<9, 10>>)>>
    /\ IndexMode("train")
    /\ FractionMode("valid")

\* C7: the context length is applied only to the non-train splits:
\* start_offset = context_length for valid and test and 0 for train in
\* fraction mode; start_index = start boundary - context_length for valid
\* and test and the start boundary for train, end_index = end boundary, in
\* index mode; without a 'valid' key the result is train_test_split with the
\* given train and test and valid_test_offset = context_length; a
\* context_length of None counts as 0.
C7_ContextOffset ==
    call.fn = "get_split_params"
    => LET cl == IF call.context_length = None THEN 0 ELSE Val(call.context_length)
       IN IF "valid" \in DOMAIN call.split_config
          THEN \A group \in SplitKeys :
                  LET b == call.split_config[group]
                      off == IF group = "train" THEN 0 ELSE cl
                      p == ret.split_params[group]
                  IN /\ ret.split_function[group] = "select_by_relative_fraction"
                        => p = [start_fraction |-> b[1], end_fraction |-> b[2],
                                start_offset |-> off]
                     /\ ret.split_function[group] = "select_by_index"
                        => p = [start_index |-> <<b[1][1] - off * b[1][2], b[1][2]>>,
                                end_index |-> b[2]]
                     /\ ret.split_function[group]
                          \in {"select_by_relative_fraction", "select_by_index"}
          ELSE /\ ret.split_function = "train_test_split"
               /\ ret.split_params = [train |-> call.split_config["train"],
                                      test |-> call.split_config["test"],
                                      valid_test_offset |-> cl]

C7_Witness ==
    /\ ThreeWay
    /\ call.context_length = Some(2)
    /\ call.split_config["train"] = <<(<<1, 1>>), (<<3, 1>>)>>
    /\ call.split_config["test"] = <<(<<3, 1>>), (<<3, 1>>)>>
    /\ call.split_config["valid"] = <<(<<7, 10>>), (<<9, 10>>)>>
    /\ ret.split_params["train"].start_index = <<1, 1>>
    /\ ret.split_params["test"].start_index = <<1, 1>>
    /\ ret.split_params["valid"].start_offset = 2

---------------------------------------------------------------------------
(* Properties of the timestamp and fraction selections *)

\* C8 as stated: select_by_timestamp returns exactly the rows with
\* timestamp >= start_timestamp and timestamp < end_timestamp, in table
\* order, where every supplied bound (zero and negative ones included) is
\* applied and only a None bound is dropped; it fails with the configuration
\* error exactly when both bounds are None.
C8_Claim ==
    call.fn = "select_by_timestamp"
    => LET s == call.start_timestamp
           e == call.end_timestamp
       IN IF s = None /\ e = None
          THEN ret.status = "config"
          ELSE ret = Ok(SelectSeq(df, LAMBDA r : /\ (s = None \/ r.timestamp >= Val(s))
                                                 /\ (e = None \/ r.timestamp < Val(e))))

FractionCall == call.fn = "select_by_relative_fraction"

\* floor(length * start_fraction) - start_offset is negative in some group
NegativeStart ==
    /\ call.start_fraction /= None
    /\ \E i \in DOMAIN GroupsOf(df, call.id_columns) :
          FloorOf(Len(GroupsOf(df, call.id_columns)[i]), Val(call.start_fraction))
            - call.start_offset < 0

\* C9 as stated, on its cases with start_fraction > 0:
\* select_by_relative_fraction raises whenever the computed start_index is
\* negative for the table or some group, and never raises when
\* start_offset = 0 and start_fraction > 0.
C9_Original ==
    FractionCall
    => /\ NegativeStart => ret.status /= "ok"
       /\ (/\ call.start_offset = 0
           /\ call.start_fraction /= None
           /\ Val(call.start_fraction)[1] > 0
           /\ (call.id_columns /= <<>> => df /= <<>>))
          => ret.status = "ok"

\* C9 amended: select_by_relative_fraction raises whenever the computed
\* start_index is negative for the table or some group; when
\* start_offset = 0 and start_fraction >= 0 it never raises the
\* negative-start-index error, it succeeds when start_fraction > 0 and
\* floor(length * start_fraction) < length in the table or every group, and
\* it raises the out-of-range error when
\* floor(length * start_fraction) >= length >= 1 in the table or some group.
C9_NegativeStart ==
    FractionCall
    => /\ NegativeStart => ret.status /= "ok"
       /\ (/\ call.start_offset = 0
           /\ call.start_fraction /= None
           /\ (call.id_columns /= <<>> => df /= <<>>))
          => LET groups == GroupsOf(df, call.id_columns)
                 sf == Val(call.start_fraction)
             IN /\ ret.status /= "negative_start"
                /\ (sf[1] > 0 /\ \A i \in DOMAIN groups :
                                    FloorOf(Len(groups[i]), sf) < Len(groups[i]))
                   => ret.status = "ok"
                /\ (\E i \in DOMAIN groups :
                       Len(groups[i]) >= 1 /\ FloorOf(Len(groups[i]), sf) >= Len(groups[i]))
                   => ret.status = "out_of_range"

C9_Witness ==
    /\ FractionCall
    /\ call.id_columns = <<"id">>
    /\ call.start_fraction = Some(<<1, 2>>)
    /\ call.start_offset = 1
    /\ call.end_fraction = None
    /\ Len(GroupOf(df, 1)) = 2
    /\ Len(GroupOf(df, 2)) = 1
    /\ ret = Raise("negative_start")

C10_Case ==
    /\ call.fn = "select_by_fixed_fraction"
    /\ 0 <= call.fraction[1] /\ call.fraction[1] <= call.fraction[2]
    /\ (call.id_columns /= <<>> => df /= <<>>)
    /\ \A i \in DOMAIN GroupsOf(df, call.id_columns) :
          call.minimum_size <= Len(GroupsOf(df, call.id_columns)[i])

\* size = floor(fraction * (L - minimum_size)) + minimum_size
SizeOf(g) == FloorOf(Len(g) - call.minimum_size, call.fraction) + call.minimum_size

\* the rows the selection names in every group, concatenated
FixedFractionRows ==
    LET groups == GroupsOf(df, call.id_columns)
    IN Flatten([i \in DOMAIN groups |->
                   IF call.location = "first"
                   THEN RowsAt(groups[i], 0, SizeOf(groups[i]))
                   ELSE RowsAt(groups[i], Len(groups[i]) - SizeOf(groups[i]), Len(groups[i]))])

\* C10 as stated: for fraction in [0,1] and 0 <= minimum_size <= L the call
\* succeeds and returns the rows [0, size) for 'first' and [L - size, L) for
\* 'last' in every group; any other location fails with a configuration error.
C10_Original ==
    C10_Case
    => IF call.location \in {"first", "last"}
       THEN ret = Ok(FixedFractionRows)
       ELSE ret.status = "location"

\* C10 amended: for fraction in [0,1] and 0 <= minimum_size <= L the call
\* returns the rows [0, size) for 'first' and, when size >= 1 or L = 0 in
\* every group, the rows [L - size, L) for 'last'; for 'last' with size = 0
\* in some group of length L >= 1 it raises the out-of-range error; any other
\* location fails with a configuration error.
C10_FixedFraction ==
    C10_Case
    => LET groups == GroupsOf(df, call.id_columns)
           emptyLast == {i \in DOMAIN groups : Len(groups[i]) >= 1 /\ SizeOf(groups[i]) = 0}
       IN IF call.location = "first" THEN ret = Ok(FixedFractionRows)
          ELSE IF call.location = "last"
          THEN IF emptyLast = {} THEN ret = Ok(FixedFractionRows)
               ELSE ret.status = "out_of_range"
          ELSE ret.status = "location"

C10_Witness ==
    /\ C10_Case
    /\ call.id_columns = <<>>
    /\ call.location = "last"
    /\ call.fraction = <<1, 2>>
    /\ call.minimum_size = 1
    /\ Len(df) = 3
    /\ ret = Ok(SubSeq(df, 2, 3))

---------------------------------------------------------------------------
(* The list-merge utility *)

MaxLists == 3
MaxListLen == 2

Items == {1, 2, 3}

ListsUpTo(n) == UNION {[1..k -> Items] : k \in 0..n}
ExampleLists == <<(<<1, 2, 3>>), (<<2, 3, 4>>), (<<4, 5>>)>>
ListTuples == UNION {[1..k -> ListsUpTo(MaxListLen)] : k \in 0..MaxLists} \cup {ExampleLists}

\* set(alist)
SetOf(alist) == {alist[i] : i \in 1..Len(alist)}

\* the loop of join_list_without_repeat with final_set = set(alist): only the
\* latest list is remembered
RECURSIVE join_loop_last_only(_, _, _)
join_loop_last_only(lists, final, final_set) ==
    IF lists = <<>> THEN final
    ELSE LET alist == Head(lists)
             new_final == IF final = None
                          THEN Some(alist)
                          ELSE Some(Val(final)
                                    \o SelectSeq(alist, LAMBDA item : item \notin final_set))
         IN join_loop_last_only(Tail(lists), new_final, SetOf(alist))

\* the loop of join_list_without_repeat over the remaining lists; final is
\* None or <<the list so far>>, final_set the set of its items
RECURSIVE join_loop(_, _, _)
join_loop(lists, final, final_set) ==
    IF lists = <<>> THEN final
    ELSE LET alist == Head(lists)
             new_final == IF final = None
                          THEN Some(alist)
                          ELSE Some(Val(final)
                                    \o SelectSeq(alist, LAMBDA item : item \notin final_set))
         IN join_loop(Tail(lists), new_final, SetOf(Val(new_final)))

join_list_without_repeat(lists) == join_loop(lists, None, {})

InitJoin ==
    /\ df = <<>>
    /\ call = NoCall
    /\ ret = NoCall
    /\ tsf = NoParse

CallJoinListWithoutRepeat ==
    /\ call = NoCall
    /\ \E lists \in ListTuples :
          /\ call' = [fn |-> "join_list_without_repeat", lists |-> lists]
          /\ ret' = [status |-> "ok", value |-> join_list_without_repeat(lists)]
    /\ UNCHANGED <<df, tsf>>

NextJoin == CallJoinListWithoutRepeat

SpecJoin == InitJoin /\ [][NextJoin]_vars

---------------------------------------------------------------------------
(* Properties of join_list_without_repeat *)

\* the items of the first n lists of a call
SeenIn(lists, n) == UNION {SetOf(lists[i]) : i \in 1..n}

\* the items list i contributes: those not in any earlier list, in order
Contribution(lists, i) ==
    IF i = 1 THEN lists[1]
    ELSE SelectSeq(lists[i], LAMBDA item : item \notin SeenIn(lists, i - 1))

\* C12: join_list_without_repeat(l1, ..., ln) is the first list verbatim
\* followed, for each later list in order, by exactly those of its items, in
\* their order, that are not in the result accumulated before that list; no
\* item contributed by a later list equals an item accumulated before it;
\* ([1,2,3],[2,3,4],[4,5]) gives [1,2,3,4,5].
C12_JoinWithoutRepeat ==
    (call.fn = "join_list_without_repeat" /\ call.lists /= <<>>)
    => LET lists == call.lists
           parts == [i \in 1..Len(lists) |-> Contribution(lists, i)]
       IN /\ ret.value = Some(Flatten(parts))
          /\ SubSeq(Val(ret.value), 1, Len(lists[1])) = lists[1]
          /\ \A i \in 2..Len(lists) :
                \A j \in 1..Len(parts[i]) :
                   parts[i][j] \notin SetOf(Flatten(SubSeq(parts, 1, i - 1)))
          /\ lists = ExampleLists => ret.value = Some(<<1, 2, 3, 4, 5>>)

C12_Witness ==
    /\ call.fn = "join_list_without_repeat"
    /\ call.lists = <<(<<1, 2>>), (<<2, 3>>), (<<1, 3>>)>>
    /\ ret.value = Some(<<1, 2, 3>>)

---------------------------------------------------------------------------
(* Grouped against ungrouped selection *)

\* the call just made, made again without id_columns
Ungrouped ==
    IF call.fn = "select_by_index"
    THEN select_by_index(df, <<>>, call.start_index, call.end_index)
    ELSE IF call.fn = "select_by_relative_fraction"
    THEN select_by_relative_fraction(df, <<>>, call.start_fraction, call.start_offset,
                                     call.end_fraction)
    ELSE IF call.fn = "select_by_fixed_fraction"
    THEN select_by_fixed_fraction(df, <<>>, call.fraction, call.location, call.minimum_size)
    ELSE train_test_split(df, <<>>, call.train, call.test, call.valid_test_offset)

GroupedCall ==
    /\ call.fn \in {"select_by_index", "select_by_relative_fraction",
                    "select_by_fixed_fraction", "train_test_split"}
    /\ call.id_columns = <<"id">>

\* the id column has one value on every row, so the table is a single group
SingleGroup == df /= <<>> /\ \A i \in DOMAIN df : df[i].id = df[1].id

\* C13: on a table that is a single group, select_by_index,
\* select_by_relative_fraction, select_by_fixed_fraction and train_test_split
\* called with id_columns = [id] return the same rows in the same order as
\* the same call without id_columns, and fail in the same cases with the
\* same error.
C13_GroupedEqualsUngrouped ==
    (GroupedCall /\ SingleGroup) => ret = Ungrouped

C13_Witness ==
    /\ GroupedCall
    /\ SingleGroup
    /\ call.fn = "select_by_index"
    /\ call.start_index = Some(1)
    /\ call.end_index = Some(2)
    /\ Len(df) = 3
    /\ ret = Ok(SubSeq(df, 2, 2))

---------------------------------------------------------------------------
(* The legacy format reader *)

MaxLines == 4

\* the stripped lines of a file, by what the reader looks at: the leading
\* character and tag, the number of space-separated tokens of a meta-data
\* line, the number of colon-separated fields of a data line and whether all
\* its values are "?"
Blank == [kind |-> "blank"]
Comment == [kind |-> "comment"]
DataTag == [kind |-> "data_tag"]
Attribute(name, type) == [kind |-> "attribute", tokens |-> 3, name |-> name, type |-> type]
AttributeBad == [kind |-> "attribute", tokens |-> 2]
Frequency == [kind |-> "meta", tokens |-> 2, value |-> "daily"]
DataLine(fields, series) == [kind |-> "data", fields |-> fields, series |-> series]

Lines ==
    {Blank, Comment, DataTag, AttributeBad, Frequency,
     Attribute("series_name", "string"), Attribute("start", "numeric"),
     Attribute("series_name", "bogus"),
     DataLine(2, "values"), DataLine(3, "values"), DataLine(2, "all_missing")}

Files == UNION {[1..n -> Lines] : n \in 0..MaxLines}

value_column_name == "series_value"

\* the local variables of convert_tsf_to_dataframe before the first line;
\* all_data and all_series hold the number of entries of each list
StartParse(file) ==
    [status |-> "reading", file |-> file, pos |-> 0,
     col_names |-> <<>>, col_types |-> <<>>, all_data |-> <<>>, all_series |-> 0,
     line_count |-> 0, frequency |-> None,
     found_data_tag |-> FALSE, found_data_section |-> FALSE,
     started_reading_data_section |-> FALSE]

Fail(st, message) == [st EXCEPT !.status = message]

\* a meta-data line other than @data
read_meta_line(st, line) ==
    IF line.kind = "attribute"
    THEN IF line.tokens /= 3 THEN Fail(st, "Invalid meta-data specification.")
         ELSE [st EXCEPT !.col_names = Append(@, line.name),
                         !.col_types = Append(@, line.type)]
    ELSE IF line.tokens /= 2 THEN Fail(st, "Invalid meta-data specification.")
         ELSE [st EXCEPT !.frequency = Some(line.value)]

\* the @data line
read_data_tag(st) ==
    IF Len(st.col_names) = 0
    THEN Fail(st, "Missing attribute section. Attribute section must come before data.")
    ELSE [st EXCEPT !.found_data_tag = TRUE]

\* the casts and appends of the attribute values of one data line: the
\* first attribute with an unknown type or without a list in all_data raises
RECURSIVE append_attributes(_, _)
append_attributes(st, i) ==
    IF i > Len(st.col_names) THEN st
    ELSE IF st.col_types[i] \notin {"numeric", "string", "date"}
    THEN Fail(st, "Invalid attribute type.")
    ELSE IF st.col_names[i] \notin DOMAIN st.all_data
    THEN Fail(st, "KeyError")
    ELSE append_attributes([st EXCEPT !.all_data[st.col_names[i]] = @ + 1], i + 1)

\* a data line read without asking for the @data tag
read_data_line_untagged(st, line) ==
    IF Len(st.col_names) = 0
    THEN Fail(st, "Missing attribute section. Attribute section must come before data.")
    ELSE LET started ==
                 IF ~st.started_reading_data_section
                 THEN [st EXCEPT !.started_reading_data_section = TRUE,
                                 !.found_data_section = TRUE,
                                 !.all_series = 0,
                                 !.all_data = [c \in SetOf(st.col_names) |-> 0]]
                 ELSE st
         IN IF line.fields /= Len(st.col_names) + 1
            THEN Fail(started, "Missing attributes/values in series.")
            ELSE IF line.series = "all_missing"
            THEN Fail(started, "All series values are missing.")
            ELSE append_attributes([started EXCEPT !.all_series = @ + 1], 1)

\* a line that starts with neither @ nor #
read_data_line(st, line) ==
    IF Len(st.col_names) = 0
    THEN Fail(st, "Missing attribute section. Attribute section must come before data.")
    ELSE IF ~st.found_data_tag
    THEN Fail(st, "Missing @data tag.")
    ELSE LET started ==
                 IF ~st.started_reading_data_section
                 THEN [st EXCEPT !.started_reading_data_section = TRUE,
                                 !.found_data_section = TRUE,
                                 !.all_series = 0,
                                 !.all_data = [c \in SetOf(st.col_names) |-> 0]]
                 ELSE st
         IN IF line.fields /= Len(st.col_names) + 1
            THEN Fail(started, "Missing attributes/values in series.")
            ELSE IF line.series = "all_missing"
            THEN Fail(started, "All series values are missing.")
            ELSE append_attributes([started EXCEPT !.all_series = @ + 1], 1)

\* one iteration of the loop over the lines of the file
read_line(st, line) ==
    LET after == IF line.kind = "blank" THEN st
                 ELSE IF line.kind \in {"attribute", "meta"} THEN read_meta_line(st, line)
                 ELSE IF line.kind = "data_tag" THEN read_data_tag(st)
                 ELSE IF line.kind = "comment" THEN st
                 ELSE read_data_line(st, line)
    IN IF after.status /= "reading" THEN [after EXCEPT !.pos = @ + 1]
       ELSE IF line.kind = "blank" THEN [after EXCEPT !.pos = @ + 1]
       ELSE [after EXCEPT !.pos = @ + 1, !.line_count = @ + 1]

\* the checks after the loop and the construction of the table: its
\* columns are the keys of all_data, with the series column set last
end_of_file(st) ==
    IF st.line_count = 0 THEN Fail(st, "Empty file.")
    ELSE IF Len(st.col_names) = 0 THEN Fail(st, "Missing attribute section.")
    ELSE IF ~st.found_data_section
    THEN Fail(st, "Missing series information under data section.")
    ELSE LET columns == [c \in DOMAIN st.all_data \cup {value_column_name} |->
                            IF c = value_column_name THEN st.all_series ELSE st.all_data[c]]
         IN IF \E c \in DOMAIN columns : columns[c] /= st.all_series
            THEN Fail(st, "All arrays must be of the same length")
            ELSE [st EXCEPT !.status = "ok", !.all_data = columns]

InitTsf ==
    /\ df = <<>>
    /\ call = NoCall
    /\ ret = NoCall
    /\ tsf \in {StartParse(file) : file \in Files}

ReadLine ==
    /\ tsf.status = "reading"
    /\ tsf.pos < Len(tsf.file)
    /\ tsf' = read_line(tsf, tsf.file[tsf.pos + 1])
    /\ UNCHANGED <<df, call, ret>>

EndOfFile ==
    /\ tsf.status = "reading"
    /\ tsf.pos = Len(tsf.file)
    /\ tsf' = end_of_file(tsf)
    /\ UNCHANGED <<df, call, ret>>

NextTsf ==
    \/ ReadLine
    \/ EndOfFile

SpecTsf == InitTsf /\ [][NextTsf]_vars

---------------------------------------------------------------------------
(* Properties of convert_tsf_to_dataframe *)

\* the reader has returned or raised
Done == tsf.status \notin {"none", "reading"}

IsAttribute(line) == line.kind = "attribute" /\ line.tokens = 3
IsData(line) == line.kind = "data"

DeclaresAttribute(file) == \E i \in DOMAIN file : IsAttribute(file[i])
HasDataTag(file) == \E i \in DOMAIN file : file[i].kind = "data_tag"
HasDataLine(file) == \E i \in DOMAIN file : IsData(file[i])
WellFormedMeta(file) == \A i \in DOMAIN file : file[i].kind = "attribute" => file[i].tokens = 3

\* some attribute is declared before line j
AttributeBefore(file, j) == \E i \in 1..(j - 1) : IsAttribute(file[i])

\* attributes followed by @data: there is an @data line and every @data
\* line comes after an attribute
ValidHeader(file) ==
    /\ HasDataTag(file)
    /\ \A j \in DOMAIN file : file[j].kind = "data_tag" => AttributeBefore(file, j)

\* every data line comes after an attribute
DataAfterAttributes(file) ==
    \A j \in DOMAIN file : IsData(file[j]) => AttributeBefore(file, j)

\* C11 as stated, on files whose meta-data lines are well formed and whose
\* data lines follow an attribute: a file that declares an attribute but has
\* no @data line fails with 'Missing @data tag.', and a file with a valid
\* header and no data line fails with 'Missing series information under data
\* section.'.
C11_Original ==
    (Done /\ WellFormedMeta(tsf.file) /\ DataAfterAttributes(tsf.file))
    => /\ (DeclaresAttribute(tsf.file) /\ ~HasDataTag(tsf.file))
          => tsf.status = "Missing @data tag."
       /\ (ValidHeader(tsf.file) /\ ~HasDataLine(tsf.file))
          => tsf.status = "Missing series information under data section."

\* C11 amended: for a file whose meta-data lines are well formed, that
\* declares an attribute and has no @data line: if it has a data line after
\* an attribute it fails with 'Missing @data tag.' (a first data line before
\* every attribute fails with 'Missing attribute section. Attribute section
\* must come before data.'); if it has no data line it fails with 'Missing
\* series information under data section.', the error of a valid header
\* with no data line.  A file of blank lines fails with 'Empty file.' and a
\* file without attribute, @data and data line with 'Missing attribute
\* section.'.
C11_MissingDataTag ==
    (Done /\ WellFormedMeta(tsf.file))
    => LET file == tsf.file
           first == CHOOSE j \in DOMAIN file :
                       IsData(file[j]) /\ \A i \in 1..(j - 1) : ~IsData(file[i])
       IN /\ (DeclaresAttribute(file) /\ ~HasDataTag(file) /\ HasDataLine(file))
             => tsf.status = IF AttributeBefore(file, first)
                             THEN "Missing @data tag."
                             ELSE "Missing attribute section. Attribute section must come before data."
          /\ (DeclaresAttribute(file) /\ ~HasDataTag(file) /\ ~HasDataLine(file))
             => tsf.status = "Missing series information under data section."
          /\ (ValidHeader(file) /\ ~HasDataLine(file))
             => tsf.status = "Missing series information under data section."
          /\ (\A i \in DOMAIN file : file[i].kind = "blank")
             => tsf.status = "Empty file."
          /\ (/\ \E i \in DOMAIN file : file[i].kind /= "blank"
              /\ ~DeclaresAttribute(file) /\ ~HasDataTag(file) /\ ~HasDataLine(file))
             => tsf.status = "Missing attribute section."

C11_Witness ==
    /\ tsf.status = "Missing @data tag."
    /\ tsf.file = <<Attribute("series_name", "string"), Comment, DataLine(2, "values")>>
    /\ tsf.pos = 3

\* C14 as stated: every successful return yields a table in which every
\* attribute declared by an @attribute line of the file is a column and in
\* which every column holds one entry per data line of the file; a data line
\* is accepted only after an @data line was seen with an attribute declared.
C14_Claim ==
    /\ tsf.status = "ok"
       => /\ \A i \in DOMAIN tsf.file :
                IsAttribute(tsf.file[i]) => tsf.file[i].name \in DOMAIN tsf.all_data
          /\ value_column_name \in DOMAIN tsf.all_data
          /\ \A c \in DOMAIN tsf.all_data :
                tsf.all_data[c] = Cardinality({i \in DOMAIN tsf.file : IsData(tsf.file[i])})
    /\ (tsf.status \in {"reading", "ok"} /\ tsf.all_series > 0)
       => tsf.found_data_tag /\ Len(tsf.col_names) > 0

=============================================================================
